---- MODULE Spec2Model ----
(***************************************************************************)
(* Model of country.py: the travel-time cost model, Location, and the      *)
(* Country aggregate (travel_time, fastest_trip_from, nn_tour,             *)
(* best_depot_site).                                                       *)
(*                                                                         *)
(* Representation choices:                                                 *)
(*  - names and regions are natural numbers ordered as the strings are     *)
(*    ordered (1 < 2 stands for "A" < "B");                                *)
(*  - theta is counted in half turns (theta = k stands for k*pi), so that  *)
(*    cos(theta1 - theta2) is 1 or -1 and the law of cosines has an exact   *)
(*    integer square root;                                                 *)
(*  - speeds are counted in quarter metres per second (4.75 m/s = 19);     *)
(*  - a time in hours is an exact fraction [num, den]; floating-point      *)
(*    rounding is not modelled.                                            *)
(***************************************************************************)
EXTENDS Integers, Sequences, FiniteSets, TLC

MaxName == 2
MaxRegion == 2
MaxR == 1
MaxLocs == 3
MaxCands == 2
MaxIdx == 1

DefaultSpeed == 19
SecondsPerHour == 3600

Names == 1..MaxName
Regions == 1..MaxRegion
Thetas == {0, 1}

\* A Location object as left by Location.__init__.
Locations ==
  [name : Names, region : Regions, r : 1..MaxR, theta : Thetas, depot : BOOLEAN]

\* Location.__eq__: same name and same region.
LocEq(a, b) == a.name = b.name /\ a.region = b.region

\* cos of an angle given in half turns.
Cos(d) == IF d % 2 = 0 THEN 1 ELSE -1

\* sqrt on the perfect squares the law of cosines produces here.
Sqrt(n) == CHOOSE k \in 0..n : k * k = n

----------------------------------------------------------------------------
\* Exact fractions standing for the floats of the program: num/den with
\* den > 0 is a finite number, a positive num over 0 is float('inf') and 0/0
\* is a NaN.  No comparison with a NaN holds, and a sum with a NaN is a NaN.
Frac(n, d) == [num |-> n, den |-> d]
Zero == Frac(0, 1)
Infinity == Frac(1, 0)
NotANumber == Frac(0, 0)
IsNaN(a) == a.num = 0 /\ a.den = 0
FLess(a, b) == a.num * b.den < b.num * a.den
FEq(a, b) == ~IsNaN(a) /\ ~IsNaN(b) /\ a.num * b.den = b.num * a.den
FAdd(a, b) ==
  IF IsNaN(a) \/ IsNaN(b) THEN NotANumber
  ELSE IF a.den = b.den THEN Frac(a.num + b.num, a.den)
  ELSE Frac(a.num * b.den + b.num * a.den, a.den * b.den)

\* An r above MaxR stands for float('inf'), which Location.__init__ accepts.
IsInfinite(r) == r > MaxR

\* Location.distance_to: sqrt(r1**2 + r2**2 - 2*r1*r2*cos(theta1 - theta2)).
\* With an infinite r the radicand is inf - inf, a NaN, when the cosine is 1
\* and inf + inf when it is -1.
distance_to(self, other) ==
  IF IsInfinite(self.r) \/ IsInfinite(other.r)
  THEN (IF Cos(self.theta - other.theta) = 1 THEN NotANumber ELSE Infinity)
  ELSE Frac(Sqrt(self.r * self.r + other.r * other.r
                 - 2 * self.r * other.r * Cos(self.theta - other.theta)), 1)

\* Mutant: the population is not clamped.
Max_Second(a, b) == b

Max(a, b) == IF a >= b THEN a ELSE b

\* int(x) for a number x = num/den, den > 0: truncation towards zero.
PyInt(x) ==
  IF x.num >= 0 THEN x.num \div x.den ELSE -((-x.num) \div x.den)

Ok(v) == [err |-> "none", val |-> v]
Raise(e) == [err |-> e, val |-> Zero]

\* Mutant: the speed given is ignored and the default one is used.
travel_time_AtDefaultSpeed(distance, different_regions, locations_in_dest_region, speed) ==
  IF FLess(distance, Zero) THEN Raise("ValueError")
  ELSE IF different_regions \notin {0, 1} THEN Raise("ValueError")
  ELSE LET n == Max(1, PyInt(locations_in_dest_region))
       IN IF speed = 0 THEN Raise("ZeroDivisionError")
          ELSE Ok(Frac(distance.num * (10 + different_regions * n),
                       distance.den * DefaultSpeed * (SecondsPerHour \div 4) * 10))

\* The module-level travel_time (the cost model):
\*   (1/3600) * (distance/speed) * (1 + different_regions*locations/10)
\* with speed in quarter m/s: distance*(10 + dr*n) / (speed * 3600/4 * 10).
\* distance and locations_in_dest_region are any numbers, given as fractions.
travel_time(distance, different_regions, locations_in_dest_region, speed) ==
  IF FLess(distance, Zero) THEN Raise("ValueError")
  ELSE IF different_regions \notin {0, 1} THEN Raise("ValueError")
  ELSE LET n == Max(1, PyInt(locations_in_dest_region))
       IN IF speed = 0 THEN Raise("ZeroDivisionError")
          ELSE Ok(Frac(distance.num * (10 + different_regions * n),
                       distance.den * speed * (SecondsPerHour \div 4) * 10))

----------------------------------------------------------------------------
\* Country: _all_locations is a tuple of Location objects.

\* `x in seq` for a tuple of Locations: some element equals x.
Contains(seq, x) == \E i \in 1..Len(seq) : LocEq(seq[i], x)

IsSettlement(loc) == ~loc.depot
IsDepot(loc) == loc.depot

\* Country.settlements / Country.depots / n_settlements / n_depots
\* Mutant: the view is not filtered by the depot flag.
settlements_Unfiltered(all) == all

settlements(all) == SelectSeq(all, IsSettlement)
depots(all) == SelectSeq(all, IsDepot)
n_settlements(all) == Len(settlements(all))
n_depots(all) == Len(depots(all))

\* Mutant: only the settlements of the region are counted.
RECURSIVE CountRegion_SettlementsOnly(_, _)
CountRegion_SettlementsOnly(all, region) ==
  IF all = <<>> THEN 0
  ELSE (IF Head(all).region = region /\ ~Head(all).depot THEN 1 ELSE 0)
         + CountRegion_SettlementsOnly(Tail(all), region)

\* sum(1 for loc in self._all_locations if loc.region == region)
RECURSIVE CountRegion(_, _)
CountRegion(all, region) ==
  IF all = <<>> THEN 0
  ELSE (IF Head(all).region = region THEN 1 ELSE 0) + CountRegion(Tail(all), region)

\* Mutant: end_location is not checked for membership.
CountryTravelTime_NoEndCheck(all, start_location, end_location) ==
  IF ~Contains(all, start_location) THEN Raise("ValueError")
  ELSE travel_time(distance_to(start_location, end_location),
                   IF start_location.region # end_location.region THEN 1 ELSE 0,
                   Frac(CountRegion(all, end_location.region), 1), DefaultSpeed)

\* Country.travel_time
CountryTravelTime(all, start_location, end_location) ==
  IF ~Contains(all, start_location) THEN Raise("ValueError")
  ELSE IF ~Contains(all, end_location) THEN Raise("ValueError")
  ELSE LET distance == distance_to(start_location, end_location)
           different_regions ==
             IF start_location.region # end_location.region THEN 1 ELSE 0
           locations_in_dest_region == Frac(CountRegion(all, end_location.region), 1)
       IN travel_time(distance, different_regions, locations_in_dest_region,
                      DefaultSpeed)

----------------------------------------------------------------------------
\* Country.fastest_trip_from

\* Placeholder in the loc field of results and candidates that carry no Location.
NoLocation == [name |-> 0, region |-> 0, r |-> 0, theta |-> 0, depot |-> FALSE]

\* An element of potential_locations: a Location or an int.
LocCand(l) == [isInt |-> FALSE, idx |-> 0, loc |-> l]
IntCand(i) == [isInt |-> TRUE, idx |-> i, loc |-> NoLocation]

\* Some int element fails `loc < 0 or loc >= len(self.settlements)`.
IndexOutOfBounds(all, potential) ==
  \E k \in 1..Len(potential) :
     /\ potential[k].isInt
     /\ (potential[k].idx < 0 \/ potential[k].idx >= n_settlements(all))

\* Mutant: an int indexes the stored Locations, not the settlements.
Resolve_FromAll(all, cand) ==
  IF cand.isInt THEN all[cand.idx + 1] ELSE cand.loc

\* The Location a candidate stands for (self.settlements[loc] for an int).
Resolve(all, cand) ==
  IF cand.isInt THEN settlements(all)[cand.idx + 1] ELSE cand.loc

\* set.add over the candidates in order: an element equal to one already in
\* the set is not added.  The set is kept as the sequence of its elements.
RECURSIVE AddAll(_, _, _)
AddAll(all, potential, acc) ==
  IF potential = <<>> THEN acc
  ELSE LET l == Resolve(all, Head(potential))
       IN AddAll(all, Tail(potential),
                 IF Contains(acc, l) THEN acc ELSE Append(acc, l))

\* Mutant: current_location is removed from the caller's list itself.
CandidatesAfter_Discarded(potential_locations, current) ==
  SelectSeq(potential_locations,
            LAMBDA c : c.isInt \/ ~LocEq(c.loc, current))

\* The caller's potential_locations when the call is over: the elements are
\* copied into the new set locations_to_check, and only that set is changed.
CandidatesAfter(potential_locations, current) == potential_locations

\* Mutant: current_location stays in the set.
Discard_Keeps(set, current) == set

\* set.discard(current_location)
Discard(set, current) == SelectSeq(set, LAMBDA l : ~LocEq(l, current))

RECURSIVE Reverse(_)
Reverse(s) == IF s = <<>> THEN <<>> ELSE Append(Reverse(Tail(s)), Head(s))

\* The order in which a set is iterated is not fixed by the program.
IterOrder(set, rev) == IF rev THEN Reverse(set) ELSE set

\* Mutant: a candidate whose travel_time raised is kept, with the time left unset.
RECURSIVE TravelTimes_NoSkip(_, _, _)
TravelTimes_NoSkip(all, current, locs) ==
  IF locs = <<>> THEN <<>>
  ELSE <<[loc |-> Head(locs), time |-> CountryTravelTime(all, current, Head(locs)).val]>>
         \o TravelTimes_NoSkip(all, current, Tail(locs))

\* The try/except loop: a candidate whose travel_time raises ValueError is skipped.
RECURSIVE TravelTimes(_, _, _)
TravelTimes(all, current, locs) ==
  IF locs = <<>> THEN <<>>
  ELSE LET t == CountryTravelTime(all, current, Head(locs))
           rest == TravelTimes(all, current, Tail(locs))
       IN IF t.err = "ValueError" THEN rest
          ELSE <<[loc |-> Head(locs), time |-> t.val]>> \o rest

\* Mutant: the key is the time alone.
TripKeyLess_TimeOnly(x, y) == FLess(x.time, y.time)

\* key = lambda x: (x[1], x[0].name, x[0].region), compared as tuples
TripKeyLess(x, y) ==
  \/ FLess(x.time, y.time)
  \/ /\ FEq(x.time, y.time)
     /\ \/ x.loc.name < y.loc.name
        \/ x.loc.name = y.loc.name /\ x.loc.region < y.loc.region

\* sorted(travel_times, key=...): a stable sort
RECURSIVE InsertTrip(_, _)
InsertTrip(x, sorted) ==
  IF sorted = <<>> THEN <<x>>
  ELSE IF TripKeyLess(x, Head(sorted)) THEN <<x>> \o sorted
  ELSE <<Head(sorted)>> \o InsertTrip(x, Tail(sorted))

RECURSIVE SortTrips(_)
SortTrips(trips) ==
  IF trips = <<>> THEN <<>>
  ELSE InsertTrip(trips[Len(trips)], SortTrips(SubSeq(trips, 1, Len(trips) - 1)))

Trip(l, t) == [err |-> "none", found |-> TRUE, loc |-> l, time |-> t]
NoTrip == [err |-> "none", found |-> FALSE, loc |-> NoLocation, time |-> Zero]
TripError(e) == [err |-> e, found |-> FALSE, loc |-> NoLocation, time |-> Zero]

\* potential_locations = None is passed as isNone = TRUE.
fastest_trip_from(all, current_location, isNone, potential_locations, rev) ==
  LET potential ==
        IF isNone
        THEN [k \in 1..n_settlements(all) |-> LocCand(settlements(all)[k])]
        ELSE potential_locations
  IN IF IndexOutOfBounds(all, potential) THEN TripError("IndexError")
     ELSE LET locations_to_check ==
                Discard(AddAll(all, potential, <<>>), current_location)
          IN IF locations_to_check = <<>> THEN NoTrip
             ELSE LET travel_times ==
                        TravelTimes(all, current_location,
                                    IterOrder(locations_to_check, rev))
                  IN IF travel_times = <<>> THEN NoTrip
                     ELSE LET first == SortTrips(travel_times)[1]
                          IN Trip(first.loc, first.time)

----------------------------------------------------------------------------
\* Country.nn_tour

TourResult(tour, time, n) == [err |-> "none", tour |-> tour, time |-> time, iters |-> n]
TourError(e) == [err |-> e, tour |-> <<>>, time |-> Zero, iters |-> 0]

\* Mutant: every Location of next_loc's region leaves the set.
Remove_Region(set, x) == SelectSeq(set, LAMBDA l : l.region # x.region)

\* set.remove(next_loc)
Remove(set, x) == SelectSeq(set, LAMBDA l : ~LocEq(l, x))

\* Mutant: the leg back to the depot is not counted.
FinalLeg_Omitted(all, current, starting_depot) == Ok(Zero)

\* final_time = self.travel_time(current, starting_depot)
FinalLeg(all, current, starting_depot) ==
  CountryTravelTime(all, current, starting_depot)

\* The while loop and the return to the starting depot.
RECURSIVE NnLoop(_, _, _, _, _, _, _, _)
NnLoop(all, starting_depot, tour, unvisited, total_time, current, n, rev) ==
  IF unvisited # <<>>
  THEN LET potential == [k \in 1..Len(unvisited) |-> LocCand(unvisited[k])]
           next == fastest_trip_from(all, current, FALSE, potential, rev)
       IN IF next.err # "none" THEN TourError(next.err)
          ELSE IF ~next.found THEN TourError("TypeError")
          ELSE IF ~Contains(unvisited, next.loc) THEN TourError("KeyError")
          ELSE NnLoop(all, starting_depot, Append(tour, next.loc),
                      Remove(unvisited, next.loc), FAdd(total_time, next.time),
                      next.loc, n + 1, rev)
  ELSE LET final_time == FinalLeg(all, current, starting_depot)
       IN IF final_time.err # "none" THEN TourError(final_time.err)
          ELSE TourResult(Append(tour, starting_depot),
                          FAdd(total_time, final_time.val), n)

\* Mutant: the starting Location is not required to be a depot.
nn_tour_NoDepotCheck(all, starting_depot, rev) ==
  IF n_settlements(all) = 0
  THEN TourResult(<<starting_depot, starting_depot>>, Zero, 0)
  ELSE NnLoop(all, starting_depot, <<starting_depot>>,
              IterOrder(settlements(all), rev), Zero, starting_depot, 0, rev)

\* Mutant: every other Location, depots included, is put in unvisited.
nn_tour_VisitsDepots(all, starting_depot, rev) ==
  IF ~Contains(depots(all), starting_depot) THEN TourError("ValueError")
  ELSE IF n_settlements(all) = 0
       THEN TourResult(<<starting_depot, starting_depot>>, Zero, 0)
  ELSE NnLoop(all, starting_depot, <<starting_depot>>,
              IterOrder(Remove(all, starting_depot), rev), Zero, starting_depot, 0, rev)

nn_tour(all, starting_depot, rev) ==
  IF ~Contains(depots(all), starting_depot) THEN TourError("ValueError")
  ELSE IF n_settlements(all) = 0
       THEN TourResult(<<starting_depot, starting_depot>>, Zero, 0)
  ELSE NnLoop(all, starting_depot, <<starting_depot>>,
              IterOrder(settlements(all), rev), Zero, starting_depot, 0, rev)

----------------------------------------------------------------------------
\* Country.best_depot_site

\* key = lambda x: (x.name, x.region)
DepotKeyLess(x, y) ==
  \/ x.name < y.name
  \/ x.name = y.name /\ x.region < y.region

RECURSIVE InsertDepot(_, _)
InsertDepot(x, sorted) ==
  IF sorted = <<>> THEN <<x>>
  ELSE IF DepotKeyLess(x, Head(sorted)) THEN <<x>> \o sorted
  ELSE <<Head(sorted)>> \o InsertDepot(x, Tail(sorted))

\* sorted(self.depots, key=...)
RECURSIVE SortDepots(_)
SortDepots(ds) ==
  IF ds = <<>> THEN <<>>
  ELSE InsertDepot(ds[Len(ds)], SortDepots(SubSeq(ds, 1, Len(ds) - 1)))

\* best_time = float('inf') is isInf = TRUE; best_depot = None is found = FALSE.
NoBest == [err |-> "none", found |-> FALSE, isInf |-> TRUE, loc |-> NoLocation,
           time |-> Zero, tour |-> <<>>]
BestError(e) == [NoBest EXCEPT !.err = e]

\* Mutant: `if time <= best_time`
Improves_OrEqual(time, best) ==
  LET best_time == IF best.isInf THEN Infinity ELSE best.time
  IN FLess(time, best_time) \/ FEq(time, best_time)

\* `if time < best_time`, best_time being float('inf') at first
Improves(time, best) ==
  FLess(time, IF best.isInf THEN Infinity ELSE best.time)

\* The for loop over the sorted depots.
RECURSIVE BestLoop(_, _, _, _)
BestLoop(all, ds, best, rev) ==
  IF ds = <<>> THEN best
  ELSE LET t == nn_tour(all, Head(ds), rev)
       IN IF t.err # "none" THEN BestError(t.err)
          ELSE BestLoop(all, Tail(ds),
                        IF Improves(t.time, best)
                        THEN [err |-> "none", found |-> TRUE, isInf |-> FALSE,
                              loc |-> Head(ds), time |-> t.time, tour |-> t.tour]
                        ELSE best,
                        rev)

best_depot_site(all, rev) ==
  IF depots(all) = <<>> THEN BestError("ValueError")
  ELSE BestLoop(all, SortDepots(depots(all)), NoBest, rev)

----------------------------------------------------------------------------
\* The state: one Country object, the last call made on it and what it returned.

VARIABLES constructed, all_locations, call, ret

vars == <<constructed, all_locations, call, ret>>

Call(op, a, b, flag, cands) ==
  [op |-> op, a |-> a, b |-> b, flag |-> flag, cands |-> cands]

NoCall == Call("none", NoLocation, NoLocation, FALSE, <<>>)

Ret(err, found, loc, time, tour, iters) ==
  [err |-> err, found |-> found, loc |-> loc, time |-> time, tour |-> tour,
   iters |-> iters,
   after |-> <<>>]

NoRet == Ret("none", FALSE, NoLocation, Zero, <<>>, 0)

SeqsUpTo(S, n) == UNION {[1..k -> S] : k \in 0..n}

\* set(list_of_locations): of Locations that are equal, the first is kept.
RECURSIVE SetOf(_, _)
SetOf(list, acc) ==
  IF list = <<>> THEN acc
  ELSE SetOf(Tail(list), IF Contains(acc, Head(list)) THEN acc
                         ELSE Append(acc, Head(list)))

\* Mutant: Locations are told apart by all their fields.
HasDuplicates_Identity(list) ==
  Cardinality({list[i] : i \in 1..Len(list)}) # Len(list)

\* Country.__init__: len(set(list_of_locations)) != len(list_of_locations)
HasDuplicates(list) == Len(SetOf(list, <<>>)) # Len(list)

\* Location arguments a caller can pass: the stored objects, Locations equal to a
\* stored one that lie elsewhere, and a Location that is not in the Country.
Moved(l) == [l EXCEPT !.theta = 1 - l.theta]
Members(all) == {all[i] : i \in 1..Len(all)}
Outsiders(all) ==
  LET out == {l \in Locations : ~Contains(all, l) /\ l.r = 1 /\ l.theta = 0 /\ ~l.depot}
  IN IF out = {} THEN {} ELSE {CHOOSE l \in out : TRUE}
FirstMember(all) == IF all = <<>> THEN {} ELSE {all[1]}
FirstMoved(all) == IF all = <<>> THEN {} ELSE {Moved(all[1])}
SecondMoved(all) == IF Len(all) < 2 THEN {} ELSE {Moved(all[2])}
ArgLocations(all) == Members(all) \cup FirstMoved(all) \cup Outsiders(all)
\* Starting points of a tour: the same, and a depot that is not in the Country.
StartArgs(all) ==
  ArgLocations(all) \cup {[o EXCEPT !.depot = TRUE] : o \in Outsiders(all)}
\* Every stored Location is the first one of some Country of the model.
CurrentArgs(all) == FirstMember(all) \cup Outsiders(all)
CandArgs(all) ==
  {LocCand(l) : l \in Members(all) \cup SecondMoved(all) \cup Outsiders(all)}
    \cup {IntCand(i) : i \in -1..MaxIdx}

\* No call is in progress and no result is pending.
Idle == call.op = "none"

Init ==
  /\ constructed = FALSE
  /\ all_locations = <<>>
  /\ call = NoCall
  /\ ret = NoRet

\* Country(list_of_locations)
Construct ==
  /\ ~constructed
  /\ Idle
  /\ \E list \in SeqsUpTo(Locations, MaxLocs) :
       /\ call' = Call("Country", NoLocation, NoLocation, FALSE,
                       [k \in 1..Len(list) |-> LocCand(list[k])])
       /\ IF HasDuplicates(list)
          THEN /\ ret' = [NoRet EXCEPT !.err = "ValueError"]
               /\ UNCHANGED <<constructed, all_locations>>
          ELSE /\ constructed' = TRUE
               /\ all_locations' = list
               /\ ret' = NoRet

\* loc.depot = value, on a Location held by the Country
SetDepot ==
  /\ constructed
  /\ Idle
  /\ \E i \in 1..Len(all_locations), isBool \in BOOLEAN, value \in BOOLEAN :
       /\ call' = Call("depot.setter", all_locations[i], NoLocation, isBool,
                       <<IntCand(IF value THEN 1 ELSE 0)>>)
       /\ IF ~isBool
          THEN /\ ret' = [NoRet EXCEPT !.err = "TypeError"]
               /\ UNCHANGED all_locations
          ELSE /\ ret' = NoRet
               /\ all_locations' = [all_locations EXCEPT ![i].depot = value]
  /\ UNCHANGED constructed

\* country.travel_time(start_location, end_location)
TravelTime ==
  /\ constructed
  /\ Idle
  /\ \E s, e \in ArgLocations(all_locations) :
       /\ call' = Call("travel_time", s, e, FALSE, <<>>)
       /\ LET t == CountryTravelTime(all_locations, s, e)
          IN ret' = Ret(t.err, t.err = "none", NoLocation, t.val, <<>>, 0)
  /\ UNCHANGED <<constructed, all_locations>>

\* country.fastest_trip_from(current_location, potential_locations)
FastestTripFrom ==
  /\ constructed
  /\ Idle
  /\ \E c \in CurrentArgs(all_locations), isNone \in BOOLEAN, rev \in BOOLEAN :
     \E cands \in (IF isNone THEN {<<>>} ELSE SeqsUpTo(CandArgs(all_locations), MaxCands)) :
       /\ call' = Call("fastest_trip_from", c, NoLocation, isNone, cands)
       /\ LET t == fastest_trip_from(all_locations, c, isNone, cands, rev)
          IN ret' = [Ret(t.err, t.found, t.loc, t.time, <<>>, 0)
                       EXCEPT !.after = CandidatesAfter(cands, c)]
  /\ UNCHANGED <<constructed, all_locations>>

\* country.nn_tour(starting_depot)
NnTour ==
  /\ constructed
  /\ Idle
  /\ \E d \in StartArgs(all_locations), rev \in BOOLEAN :
       /\ call' = Call("nn_tour", d, NoLocation, FALSE, <<>>)
       /\ LET t == nn_tour(all_locations, d, rev)
          IN ret' = Ret(t.err, t.err = "none", NoLocation, t.time, t.tour, t.iters)
  /\ UNCHANGED <<constructed, all_locations>>

\* country.best_depot_site(display=False)
BestDepotSite ==
  /\ constructed
  /\ Idle
  /\ \E rev \in BOOLEAN :
       /\ call' = Call("best_depot_site", NoLocation, NoLocation, FALSE, <<>>)
       /\ LET b == best_depot_site(all_locations, rev)
          IN ret' = Ret(b.err, b.found, b.loc, b.time, b.tour, 0)
  /\ UNCHANGED <<constructed, all_locations>>

\* The caller takes the result (or the exception) and goes on.
Return ==
  /\ ~Idle
  /\ call' = NoCall
  /\ ret' = NoRet
  /\ UNCHANGED <<constructed, all_locations>>

Next ==
  \/ Construct
  \/ SetDepot
  \/ TravelTime
  \/ FastestTripFrom
  \/ NnTour
  \/ BestDepotSite
  \/ Return

Spec == Init /\ [][Next]_vars

----------------------------------------------------------------------------
\* Vocabulary of the properties, stated on the stored Locations directly.

IsMember(x) == \E i \in 1..Len(all_locations) : LocEq(all_locations[i], x)
SettlementSet == {all_locations[i] : i \in {j \in 1..Len(all_locations) : ~all_locations[j].depot}}
DepotSet == {all_locations[i] : i \in {j \in 1..Len(all_locations) : all_locations[j].depot}}
IsDepotOfCountry(x) == \E d \in DepotSet : LocEq(d, x)

\* Country.travel_time(a, b) as a time, for a and b in the Country
TimeBetween(a, b) == CountryTravelTime(all_locations, a, b).val

\* (t1, x1.name, x1.region) <= (t2, x2.name, x2.region); two NaN times count
\* as a tie.
KeyLeq(t1, x1, t2, x2) ==
  \/ FLess(t1, t2)
  \/ /\ FEq(t1, t2) \/ (IsNaN(t1) /\ IsNaN(t2))
     /\ \/ x1.name < x2.name
        \/ x1.name = x2.name /\ x1.region <= x2.region

Returned(op) == call.op = op

\* C1: nn_tour from a depot of the Country returns a tour of |settlements| + 2
\* elements that starts and ends at the starting depot and whose interior is
\* exactly the settlements, each exactly once (no depot in the interior).
NnTourVisitsEverySettlementOnce ==
  (Returned("nn_tour") /\ IsDepotOfCountry(call.a)) =>
     /\ ret.err = "none"
     /\ Len(ret.tour) = Cardinality(SettlementSet) + 2
     /\ ret.tour[1] = call.a
     /\ ret.tour[Len(ret.tour)] = call.a
     /\ \A i \in 2..(Len(ret.tour) - 1) : ret.tour[i] \in SettlementSet
     /\ \A x \in SettlementSet :
          Cardinality({i \in 2..(Len(ret.tour) - 1) : ret.tour[i] = x}) = 1

\* C1 witness: a tour in a Country that has a settlement and another depot.
NnTourVisitsEverySettlementOnceWitness ==
  /\ Returned("nn_tour")
  /\ ret.err = "none"
  /\ Cardinality(SettlementSet) = 1
  /\ Cardinality(DepotSet) = 2
  /\ Len(ret.tour) = 3

\* C2: nn_tour is greedy: each interior element of the tour minimises
\* (travel_time(previous, x), x.name, x.region) over the settlements not yet
\* in the tour.
NnTourIsGreedy ==
  (Returned("nn_tour") /\ ret.err = "none") =>
     \A i \in 2..(Len(ret.tour) - 1) :
        LET visited == {ret.tour[j] : j \in 2..(i - 1)}
            prev == ret.tour[i - 1]
        IN /\ ret.tour[i] \in SettlementSet \ visited
           /\ \A x \in SettlementSet \ visited :
                KeyLeq(TimeBetween(prev, ret.tour[i]), ret.tour[i],
                       TimeBetween(prev, x), x)

\* C2 witness: two settlements equally far from the depot, so that the first
\* step is decided by the name or the region.
NnTourIsGreedyWitness ==
  /\ Returned("nn_tour")
  /\ ret.err = "none"
  /\ Len(ret.tour) = 4
  /\ FEq(TimeBetween(ret.tour[1], ret.tour[2]), TimeBetween(ret.tour[1], ret.tour[3]))
  /\ ~FEq(TimeBetween(ret.tour[1], ret.tour[2]), Zero)

RECURSIVE SumOfLegs(_)
SumOfLegs(tour) ==
  IF Len(tour) < 2 THEN 0
  ELSE TimeBetween(tour[1], tour[2]).num + SumOfLegs(Tail(tour))

\* The denominator of every time Country.travel_time returns.
CountryDen == travel_time(Zero, 0, Frac(1, 1), DefaultSpeed).val.den

\* C3: the total time of nn_tour is the sum of travel_time over the consecutive
\* pairs of the tour, the leg back to the depot included; with no settlement
\* the tour is [depot, depot] and the total time is 0.
NnTourTotalIsSumOfLegs ==
  (Returned("nn_tour") /\ ret.err = "none") =>
     /\ FEq(ret.time, Frac(SumOfLegs(ret.tour), CountryDen))
     /\ SettlementSet = {} => (ret.tour = <<call.a, call.a>> /\ ret.time.num = 0)

\* C3 witness: a tour over two settlements whose last leg takes time.
NnTourTotalIsSumOfLegsWitness ==
  /\ Returned("nn_tour")
  /\ ret.err = "none"
  /\ Len(ret.tour) = 4
  /\ TimeBetween(ret.tour[3], ret.tour[4]).num > 0
  /\ TimeBetween(ret.tour[1], ret.tour[2]).num > 0

\* The total time of the tour from depot d.
TourTime(d) == nn_tour(all_locations, d, FALSE).time

\* C4: with at least one depot, best_depot_site returns a depot whose tour time
\* is the least over all depots, and among the depots with that time the first
\* in ascending (name, region) order.
BestDepotIsFirstMinimum ==
  (Returned("best_depot_site") /\ DepotSet # {}) =>
     /\ ret.err = "none"
     /\ ret.found
     /\ ret.loc \in DepotSet
     /\ \A d \in DepotSet :
          KeyLeq(TourTime(ret.loc), ret.loc, TourTime(d), d)

\* C4 witness: two depots with the same positive tour time; the one returned
\* is stored after the other.
BestDepotIsFirstMinimumWitness ==
  /\ Returned("best_depot_site")
  /\ ret.found
  /\ Len(all_locations) = 3
  /\ all_locations[1].depot
  /\ all_locations[2].depot
  /\ ret.loc = all_locations[2]
  /\ FEq(TourTime(all_locations[1]), TourTime(all_locations[2]))
  /\ ret.time.num > 0

----------------------------------------------------------------------------
\* The candidates of a fastest_trip_from call, read off the stored Locations.

\* The settlement that has exactly i settlements stored before it.
SettlementAt(i) ==
  all_locations[CHOOSE k \in 1..Len(all_locations) :
     /\ ~all_locations[k].depot
     /\ Cardinality({j \in 1..(k - 1) : ~all_locations[j].depot}) = i]

SettlementsInOrder ==
  [i \in 1..Cardinality(SettlementSet) |-> LocCand(SettlementAt(i - 1))]

\* potential_locations as the call sees it (None stands for the settlements).
Potential == IF call.flag THEN SettlementsInOrder ELSE call.cands

IntsInRange ==
  \A k \in 1..Len(Potential) :
     Potential[k].isInt =>
        (0 <= Potential[k].idx /\ Potential[k].idx < Cardinality(SettlementSet))

\* The Locations the candidates stand for, when every int is in range.
Given ==
  [k \in 1..Len(Potential) |->
     IF Potential[k].isInt THEN SettlementAt(Potential[k].idx) ELSE Potential[k].loc]

\* The distinct candidates other than current: of equal candidates the one
\* given first stands for all.
DistinctOthers ==
  {Given[k] : k \in {k \in 1..Len(Given) :
                       /\ ~LocEq(Given[k], call.a)
                       /\ \A j \in 1..(k - 1) : ~LocEq(Given[j], Given[k])}}

\* C5: with current and all candidates in the Country, fastest_trip_from returns
\* (x, travel_time(current, x)) for the x that minimises (time, name, region)
\* over the distinct candidates other than current; it returns (None, None)
\* exactly when there is none, and never returns current.
FastestTripIsMinimumOverOthers ==
  (/\ Returned("fastest_trip_from")
   /\ IsMember(call.a)
   /\ IntsInRange
   /\ \A k \in 1..Len(Given) : IsMember(Given[k])) =>
     /\ ret.err = "none"
     /\ ret.found <=> DistinctOthers # {}
     /\ ret.found =>
          /\ ret.loc \in DistinctOthers
          /\ ~LocEq(ret.loc, call.a)
          /\ ret.time = TimeBetween(call.a, ret.loc)
          /\ \A y \in DistinctOthers :
               KeyLeq(TimeBetween(call.a, ret.loc), ret.loc, TimeBetween(call.a, y), y)

\* C5 witness: current is among its own candidates, next to another member.
FastestTripIsMinimumOverOthersWitness ==
  /\ Returned("fastest_trip_from")
  /\ IsMember(call.a)
  /\ ~call.flag
  /\ Len(call.cands) = 2
  /\ call.cands[1] = LocCand(call.a)
  /\ ~call.cands[2].isInt
  /\ IsMember(call.cands[2].loc)
  /\ ret.found
  /\ ret.loc = call.cands[2].loc
  /\ ret.time.num > 0

\* The candidates for which Country.travel_time(current, candidate) returns.
ValidCandidates ==
  SelectSeq(Given, LAMBDA l : IsMember(call.a) /\ IsMember(l))

FastestTripRejectsForeignCurrent ==
  (/\ Returned("fastest_trip_from")
   /\ ~IsMember(call.a)
   /\ ~call.flag
   /\ call.cands # <<>>
   /\ \A k \in 1..Len(call.cands) : ~call.cands[k].isInt) =>
     ret.err = "ValueError"

\* C8: Country.travel_time raises ValueError exactly when start or end equals
\* no stored Location, and then returns no time.
TravelTimeFailsIffNotMember ==
  Returned("travel_time") =>
     /\ ret.err = "ValueError" <=> ~(IsMember(call.a) /\ IsMember(call.b))
     /\ ret.err \in {"none", "ValueError"}
     /\ ret.err = "ValueError" => ~ret.found

\* C8 witness: start is in the Country, end is not, and the call has failed.
TravelTimeFailsIffNotMemberWitness ==
  /\ Returned("travel_time")
  /\ IsMember(call.a)
  /\ ~IsMember(call.b)
  /\ ret.err = "ValueError"

\* The number of stored Locations of a region.
RegionPopulation(region) ==
  Cardinality({i \in 1..Len(all_locations) : all_locations[i].region = region})

\* C9: for members, Country.travel_time is the cost model at the default speed
\* for distance = start.distance_to(end), crossesRegion = 1 iff the regions
\* differ, and the number of stored Locations (depots too) of end's region.
TravelTimeUsesDestinationRegion ==
  (Returned("travel_time") /\ IsMember(call.a) /\ IsMember(call.b)) =>
     /\ ret.err = "none"
     /\ ret.time = travel_time(distance_to(call.a, call.b),
                               IF call.a.region # call.b.region THEN 1 ELSE 0,
                               Frac(RegionPopulation(call.b.region), 1), DefaultSpeed).val

\* C9 witness: a trip into another region that holds a depot and one more
\* Location, from a region that holds fewer.
TravelTimeUsesDestinationRegionWitness ==
  /\ Returned("travel_time")
  /\ ret.err = "none"
  /\ call.a.region # call.b.region
  /\ RegionPopulation(call.b.region) = 2
  /\ RegionPopulation(call.a.region) = 1
  /\ \E d \in DepotSet : d.region = call.b.region
  /\ ret.time.num > 0

\* C10: Country.travel_time(start, end) is 0 whenever start == end.
SameLocationTakesNoTime ==
  (Returned("travel_time") /\ ret.err = "none" /\ LocEq(call.a, call.b)) =>
     ret.time.num = 0

\* C11: an int candidate below 0 or not below |settlements| makes
\* fastest_trip_from raise IndexError whatever the other candidates are; an
\* int i in range is treated as the Location settlements[i].
FastestTripIndexesSettlements ==
  (Returned("fastest_trip_from") /\ ~call.flag) =>
     /\ ret.err = "IndexError" <=> ~IntsInRange
     /\ IntsInRange =>
          LET asLocations == fastest_trip_from(all_locations, call.a, FALSE,
                                [k \in 1..Len(Given) |-> LocCand(Given[k])], FALSE)
          IN /\ ret.err = asLocations.err
             /\ ret.found = asLocations.found
             /\ ret.loc = asLocations.loc
             /\ ret.time = asLocations.time

\* C11 witness: a Location of the Country is given before an index that is
\* |settlements| or more, with settlements present, and the call has failed.
FastestTripIndexesSettlementsWitness ==
  /\ Returned("fastest_trip_from")
  /\ ~call.flag
  /\ Len(call.cands) = 2
  /\ ~call.cands[1].isInt
  /\ IsMember(call.cands[1].loc)
  /\ call.cands[2].isInt
  /\ call.cands[2].idx >= Cardinality(SettlementSet)
  /\ Cardinality(SettlementSet) >= 1
  /\ ret.err = "IndexError"

\* A second case of C11: the index 1 is given in a Country whose first stored
\* Location is a depot, and the second settlement is returned.
FastestTripSecondSettlementReached ==
  /\ Returned("fastest_trip_from")
  /\ call.cands = <<IntCand(1)>>
  /\ Len(all_locations) >= 1
  /\ all_locations[1].depot
  /\ Cardinality(SettlementSet) >= 2
  /\ ret.found
  /\ ret.loc = SettlementAt(1)

\* C12: nn_tour from a Location that is not among the Country's depots (a
\* settlement of the Country, or a Location outside it) raises ValueError and
\* returns no tour; best_depot_site on a Country without depots raises
\* ValueError and returns no depot.
DomainStateErrorsAreRaised ==
  /\ (Returned("nn_tour") /\ ~IsDepotOfCountry(call.a)) =>
        /\ ret.err = "ValueError"
        /\ ~ret.found
        /\ ret.tour = <<>>
  /\ (Returned("best_depot_site") /\ DepotSet = {}) =>
        /\ ret.err = "ValueError"
        /\ ~ret.found
        /\ ret.tour = <<>>

\* C12 witness: nn_tour was called with a settlement of a Country that also
\* has a depot, and the call has failed.
DomainStateErrorsAreRaisedWitness ==
  /\ Returned("nn_tour")
  /\ call.a \in SettlementSet
  /\ DepotSet # {}
  /\ ret.err = "ValueError"

\* Further cases of C12: nn_tour from a Location outside the Country, and
\* best_depot_site on a Country of settlements only.
NnTourForeignStartReached ==
  /\ Returned("nn_tour")
  /\ ~IsMember(call.a)
  /\ call.a.depot
  /\ ret.err = "ValueError"

BestDepotSiteNoDepotsReached ==
  /\ Returned("best_depot_site")
  /\ DepotSet = {}
  /\ SettlementSet # {}
  /\ ret.err = "ValueError"

\* The list a Country was last constructed from
GivenList == [k \in 1..Len(call.cands) |-> call.cands[k].loc]

\* C13: constructing a Country from a list holding two equal Locations (same
\* name and region, whatever else) raises ValueError and yields no Country;
\* constructing from pairwise-distinct Locations succeeds and stores exactly
\* the list, in its order; no Country ever holds two equal Locations.
CountryHoldsNoEqualLocations ==
  /\ \A i, j \in 1..Len(all_locations) :
        i < j => ~(/\ all_locations[i].name = all_locations[j].name
                   /\ all_locations[i].region = all_locations[j].region)
  /\ Returned("Country") =>
        IF \E i, j \in 1..Len(GivenList) :
              /\ i < j
              /\ GivenList[i].name = GivenList[j].name
              /\ GivenList[i].region = GivenList[j].region
        THEN ret.err = "ValueError" /\ ~constructed /\ all_locations = <<>>
        ELSE ret.err = "none" /\ constructed /\ all_locations = GivenList

\* C13 witness: the list held two Locations of one name and region that differ
\* in theta and in the depot flag, and the construction has failed.
CountryHoldsNoEqualLocationsWitness ==
  /\ Returned("Country")
  /\ Len(GivenList) = 2
  /\ GivenList[1].name = GivenList[2].name
  /\ GivenList[1].region = GivenList[2].region
  /\ GivenList[1].theta # GivenList[2].theta
  /\ GivenList[1].depot # GivenList[2].depot
  /\ ret.err = "ValueError"

\* The other case of C13: three distinct Locations were stored in the given order.
CountryOfThreeStoredReached ==
  /\ Returned("Country")
  /\ Len(GivenList) = 3
  /\ constructed
  /\ all_locations = GivenList

\* The depot that has exactly i depots stored before it.
DepotAt(i) ==
  all_locations[CHOOSE k \in 1..Len(all_locations) :
     /\ all_locations[k].depot
     /\ Cardinality({j \in 1..(k - 1) : all_locations[j].depot}) = i]

\* How often x occurs in a view
Occurrences(view, x) == Cardinality({k \in 1..Len(view) : view[k] = x})

\* C14: after construction and after any depot-flag changes through the depot
\* setter, settlements is exactly the non-depot Locations and depots exactly
\* the depot Locations, each in construction order; no Location is in both
\* views, every stored Location is in the two views exactly once, and
\* n_settlements + n_depots is the number of stored Locations.
ViewsPartitionTheCountry ==
  constructed =>
    LET s == settlements(all_locations)
        d == depots(all_locations)
        stored == 1..Len(all_locations)
    IN /\ Len(s) = Cardinality({j \in stored : ~all_locations[j].depot})
       /\ Len(d) = Cardinality({j \in stored : all_locations[j].depot})
       /\ \A k \in 1..Len(s) : s[k] = SettlementAt(k - 1)
       /\ \A k \in 1..Len(d) : d[k] = DepotAt(k - 1)
       /\ \A k \in 1..Len(s), m \in 1..Len(d) : ~LocEq(s[k], d[m])
       /\ \A j \in stored : Occurrences(s \o d, all_locations[j]) = 1
       /\ n_settlements(all_locations) + n_depots(all_locations) = Len(all_locations)

\* C14 witness: the depot setter has just turned a stored Location into the
\* other kind, in a Country of three Locations that now has both kinds, with
\* a depot stored before a settlement.
ViewsPartitionTheCountryWitness ==
  /\ Returned("depot.setter")
  /\ call.flag
  /\ ret.err = "none"
  /\ call.a.depot # (call.cands[1].idx = 1)
  /\ Len(all_locations) = 3
  /\ all_locations[1].depot
  /\ ~all_locations[2].depot
  /\ all_locations[3].depot

QueryOps == {"travel_time", "fastest_trip_from", "nn_tour", "best_depot_site"}

\* C20: a step in which Country.travel_time, fastest_trip_from, nn_tour or
\* best_depot_site returns or fails leaves the stored Location sequence and
\* every field of every stored Location as they were, and leaves the list
\* passed to fastest_trip_from as the caller gave it.
QueriesChangeNothing ==
  [][call'.op \in QueryOps =>
       /\ constructed' = constructed
       /\ all_locations' = all_locations
       /\ call'.op = "fastest_trip_from" => ret'.after = call'.cands]_vars

\* C20 witness: fastest_trip_from was given a list that holds current_location
\* itself and another Location, has removed current_location from its own set
\* and returned the other one; the caller's list still holds both.
QueriesChangeNothingWitness ==
  /\ Returned("fastest_trip_from")
  /\ ~call.flag
  /\ Len(call.cands) = 2
  /\ ~call.cands[1].isInt
  /\ call.cands[1].loc = call.a
  /\ ret.found
  /\ ~LocEq(ret.loc, call.a)
  /\ ret.after = call.cands

----------------------------------------------------------------------------
\* Location and the cost model, called on their own, with no Country.
\* Names and regions are strings here: sequences of the characters of Chars.

MaxStr == 3
MaxThetaArg == 2
MaxDistance == 3
MaxPopulation == 3
MaxSpeed == 2
MaxSeed == 1
HashMod == 101

Chars == {"a", "A", " "}
Strings == SeqsUpTo(Chars, MaxStr)

\* str.isspace, str.upper and str.lower on one character
IsSpace(c) == c = " "
Upper(c) == IF c = "a" THEN "A" ELSE c
Lower(c) == IF c = "A" THEN "a" ELSE c

\* name.split(): the maximal runs of characters that are not whitespace
RECURSIVE Split(_, _, _)
Split(s, word, acc) ==
  IF s = <<>> THEN (IF word = <<>> THEN acc ELSE Append(acc, word))
  ELSE IF IsSpace(Head(s))
       THEN Split(Tail(s), <<>>, IF word = <<>> THEN acc ELSE Append(acc, word))
  ELSE Split(Tail(s), Append(word, Head(s)), acc)

\* word.capitalize(): first character upper case, the others lower case
Capitalize(word) ==
  [k \in 1..Len(word) |-> IF k = 1 THEN Upper(word[k]) ELSE Lower(word[k])]

\* ' '.join(words)
RECURSIVE Join(_)
Join(words) ==
  IF words = <<>> THEN <<>>
  ELSE IF Len(words) = 1 THEN words[1]
  ELSE words[1] \o <<" ">> \o Join(Tail(words))

\* ' '.join(word.capitalize() for word in name.split())
Proper(s) ==
  LET words == Split(s, <<>>, <<>>)
  IN Join([k \in 1..Len(words) |-> Capitalize(words[k])])

\* Arguments of Location(...): a str or something else; a number, a NaN or a
\* text float() does not accept; a bool or something else.
TextArgs == {[isStr |-> TRUE, s |-> s] : s \in Strings}
              \cup {[isStr |-> FALSE, s |-> <<>>]}
Num(v) == [kind |-> "num", v |-> v]
NaN == [kind |-> "nan", v |-> 0]
NumArgs(lo, hi) == {Num(v) : v \in lo..hi} \cup {NaN, [kind |-> "text", v |-> 0]}
BoolArgs == {[isBool |-> TRUE, v |-> b] : b \in BOOLEAN}
              \cup {[isBool |-> FALSE, v |-> FALSE]}

NoObject == [name |-> <<>>, region |-> <<>>, r |-> Num(0), theta |-> Num(0),
             depot |-> FALSE]
LocationError(e) == [err |-> e, loc |-> NoObject]

\* Location.__init__; theta in half turns, so [-pi, pi] is [-1, 1].  Every
\* comparison with a NaN is false.
Location_init(name, region, r, theta, depot) ==
  IF ~depot.isBool THEN LocationError("TypeError")
  ELSE IF r.kind = "text" THEN LocationError("ValueError")
  ELSE IF r.kind = "num" /\ r.v < 0 THEN LocationError("ValueError")
  ELSE IF theta.kind = "text" THEN LocationError("ValueError")
  ELSE IF theta.kind = "num" /\ (theta.v < -1 \/ theta.v > 1)
       THEN LocationError("ValueError")
  ELSE IF ~name.isStr \/ ~region.isStr THEN LocationError("TypeError")
  ELSE [err |-> "none",
        loc |-> [name |-> Proper(name.s), region |-> Proper(region.s),
                 r |-> r, theta |-> theta, depot |-> depot.v]]

\* hash of a str, which is seeded once per process
Code(c) == IF c = "a" THEN 1 ELSE IF c = "A" THEN 2 ELSE 3
RECURSIVE StrHash(_, _)
StrHash(s, h) ==
  IF s = <<>> THEN h
  ELSE StrHash(Tail(s), (h * 31 + Code(Head(s))) % HashMod)

\* Mutant: the depot flag enters the hash.
Location_hash_WithDepot(self, seed) ==
  StrHash(self.name \o self.region \o (IF self.depot THEN <<"A">> ELSE <<>>), seed)

\* Location.__hash__: hash(self.name + self.region)
Location_hash(self, seed) == StrHash(self.name \o self.region, seed)

\* The Locations that are compared: names and regions as construction leaves them.
ProperNames == {Proper(s) : s \in Strings}
Objects ==
  [name : ProperNames, region : ProperNames, r : {Num(v) : v \in 0..MaxR},
   theta : {Num(v) : v \in {0, 1}}, depot : BOOLEAN]
Origins == {o \in Objects : o.r = Num(0) /\ o.theta = Num(0) /\ ~o.depot}

\* An argument of distance_to: a Location or something else.
Others == {[isLocation |-> TRUE, loc |-> l] : l \in Locations}
            \cup {[isLocation |-> FALSE, loc |-> NoLocation]}

\* Mutant: an argument that is not a Location is a TypeError.
Location_distance_to_TypeError(self, other) ==
  IF ~other.isLocation THEN Raise("TypeError")
  ELSE Ok(distance_to(self, other.loc))

\* Location.distance_to for any argument
Location_distance_to(self, other) ==
  IF ~other.isLocation THEN Raise("ValueError")
  ELSE Ok(distance_to(self, other.loc))

\* Arguments of the cost model: populations in halves, speeds in quarter m/s.
Distances == -1..MaxDistance
RegionFlags == -1..2
Populations == {Frac(n, 2) : n \in -2..(2 * MaxPopulation)}
Speeds == 0..MaxSpeed \cup {DefaultSpeed, 2 * DefaultSpeed}

\* Location(name, region, r, theta, depot)
NewLocation ==
  /\ Idle
  /\ \E name, region \in TextArgs, r \in NumArgs(-1, MaxR),
        theta \in NumArgs(-MaxThetaArg, MaxThetaArg), depot \in BoolArgs :
       /\ call' = [op |-> "Location", name |-> name, region |-> region, r |-> r,
                   theta |-> theta, depot |-> depot]
       /\ ret' = Location_init(name, region, r, theta, depot)
  /\ UNCHANGED <<constructed, all_locations>>

\* a == b, hash(a), hash(b) in one process
Compare ==
  /\ Idle
  /\ \E a \in Origins, b \in Objects, seed \in 0..MaxSeed :
       /\ call' = [op |-> "__eq__", a |-> a, b |-> b, seed |-> seed]
       /\ ret' = [err |-> "none", eq |-> LocEq(a, b),
                  hash_a |-> Location_hash(a, seed),
                  hash_b |-> Location_hash(b, seed)]
  /\ UNCHANGED <<constructed, all_locations>>

\* self.distance_to(other)
DistanceTo ==
  /\ Idle
  /\ \E self \in Locations, other \in Others :
       /\ call' = [op |-> "distance_to", self |-> self, other |-> other]
       /\ LET d == Location_distance_to(self, other)
          IN ret' = [err |-> d.err, found |-> d.err = "none", distance |-> d.val]
  /\ UNCHANGED <<constructed, all_locations>>

\* travel_time(distance, different_regions, locations_in_dest_region, speed)
CostModel ==
  /\ Idle
  /\ \E distance \in Distances, different_regions \in RegionFlags,
        locations_in_dest_region \in Populations, speed \in Speeds :
       /\ call' = [op |-> "cost_model", distance |-> distance,
                   different_regions |-> different_regions,
                   locations_in_dest_region |-> locations_in_dest_region,
                   speed |-> speed]
       /\ LET t == travel_time(Frac(distance, 1), different_regions,
                               locations_in_dest_region, speed)
          IN ret' = [err |-> t.err, found |-> t.err = "none", time |-> t.val]
  /\ UNCHANGED <<constructed, all_locations>>

NextLocation ==
  \/ NewLocation
  \/ Compare
  \/ DistanceTo
  \/ CostModel
  \/ Return

LocationSpec == Init /\ [][NextLocation]_vars

\* C15: two Locations with the same name and the same region compare equal
\* and have the same hash, whatever their r, theta and depot flag; two
\* Locations that differ in name or in region compare unequal.
LocationIdentityIsNameAndRegion ==
  Returned("__eq__") =>
     IF call.a.name = call.b.name /\ call.a.region = call.b.region
     THEN ret.eq /\ ret.hash_a = ret.hash_b
     ELSE ~ret.eq

\* C15 witness: two Locations named "A A" of region "Aa" that differ in r, in
\* theta and in the depot flag were compared and hashed.
LocationIdentityIsNameAndRegionWitness ==
  /\ Returned("__eq__")
  /\ call.a.name = <<"A", " ", "A">>
  /\ call.b.name = call.a.name
  /\ call.a.region = <<"A", "a">>
  /\ call.b.region = call.a.region
  /\ call.a.r # call.b.r
  /\ call.a.theta # call.b.theta
  /\ call.a.depot # call.b.depot
  /\ ret.eq
  /\ ret.hash_a = ret.hash_b

\* The other case of C15: the names are the same, the regions are not.
LocationsOfTwoRegionsReached ==
  /\ Returned("__eq__")
  /\ call.a.name = call.b.name
  /\ call.a.region # call.b.region
  /\ call.a.r = call.b.r
  /\ ~ret.eq

\* A cost-model call with valid inputs: distance >= 0, crossesRegion in
\* {0, 1}, speed > 0.
ValidCostCall ==
  /\ Returned("cost_model")
  /\ call.distance >= 0
  /\ call.different_regions \in {0, 1}
  /\ call.speed > 0

\* The population the claim speaks of: 1 for a value below 1, else its integer part.
ClampedPopulation(pop) ==
  IF pop.num < pop.den THEN 1
  ELSE CHOOSE k \in 1..(pop.num \div pop.den + 1) :
         k * pop.den <= pop.num /\ pop.num < (k + 1) * pop.den

\* distance / speed / 3600 * factor/10, speed being in quarter m/s
HoursAt(distance, speed, factor) ==
  Frac(4 * distance * factor, speed * SecondsPerHour * 10)

\* C16: for valid inputs the cost model returns
\* distance / speed / 3600 * (1 + crossesRegion * p / 10), p being the
\* population coerced to an integer and raised to at least 1; with
\* crossesRegion = 0 that is distance / speed / 3600 for every population, and
\* with crossesRegion = 1 and a population below 1 the factor is exactly 1.1.
CostModelFormula ==
  ValidCostCall =>
     LET p == ClampedPopulation(call.locations_in_dest_region)
     IN /\ ret.err = "none"
        /\ FEq(ret.time,
               HoursAt(call.distance, call.speed, 10 + call.different_regions * p))
        /\ call.different_regions = 0 =>
             FEq(ret.time, HoursAt(call.distance, call.speed, 10))
        /\ (/\ call.different_regions = 1
            /\ call.locations_in_dest_region.num < call.locations_in_dest_region.den) =>
             FEq(ret.time, HoursAt(call.distance, call.speed, 11))

\* C16 witness: a trip of positive distance into another region, at the default
\* speed, with a population of -1/2, has taken distance / 4.75 / 3600 * 1.1.
CostModelFormulaWitness ==
  /\ ValidCostCall
  /\ call.distance > 0
  /\ call.different_regions = 1
  /\ call.speed = DefaultSpeed
  /\ call.locations_in_dest_region = Frac(-1, 2)
  /\ ret.err = "none"
  /\ ret.time.num * 10 * DefaultSpeed * SecondsPerHour
       = 4 * call.distance * 11 * ret.time.den

\* A further case of C16: a population of 2.5 counts as 2.
CostModelTruncatesReached ==
  /\ ValidCostCall
  /\ call.distance = 1
  /\ call.different_regions = 1
  /\ call.locations_in_dest_region = Frac(5, 2)
  /\ FEq(ret.time, HoursAt(1, call.speed, 12))

\* The cost model at another distance or speed, the other inputs as in the call
TimeAt(distance, speed) ==
  travel_time(Frac(distance, 1), call.different_regions,
              call.locations_in_dest_region, speed).val

IncreasingInDistance ==
  \A d \in Distances : d > call.distance => FLess(ret.time, TimeAt(d, call.speed))

\* C17 as stated: over all valid inputs the cost model is strictly increasing
\* in distance and strictly decreasing in speed, the other inputs being fixed.
CostModelStrictlyMonotone ==
  ValidCostCall =>
     /\ IncreasingInDistance
     /\ \A s \in Speeds : s > call.speed => FLess(TimeAt(call.distance, s), ret.time)

\* C17 amended: over all valid inputs the cost model is strictly increasing in
\* distance; it is strictly decreasing in speed for every distance above 0,
\* and at distance 0 it is 0 at every speed.
CostModelMonotoneAboveZero ==
  ValidCostCall =>
     /\ IncreasingInDistance
     /\ call.distance > 0 =>
          \A s \in Speeds : s > call.speed => FLess(TimeAt(call.distance, s), ret.time)
     /\ call.distance = 0 =>
          \A s \in Speeds : s > 0 => FEq(TimeAt(0, s), Zero) /\ FEq(ret.time, Zero)

\* C17 witness: a valid call with a positive distance that is neither the
\* largest distance nor at the largest speed, into another region.
CostModelMonotoneAboveZeroWitness ==
  /\ ValidCostCall
  /\ call.distance > 0
  /\ call.distance < MaxDistance
  /\ call.speed = DefaultSpeed
  /\ call.different_regions = 1
  /\ FLess(Zero, ret.time)

\* The case that refutes C17 as stated: distance 0 at the default speed.
CostModelZeroDistanceReached ==
  /\ ValidCostCall
  /\ call.distance = 0
  /\ call.speed = DefaultSpeed
  /\ FEq(ret.time, TimeAt(0, 2 * DefaultSpeed))

\* s is in word-capitalized form: words joined by single spaces, none at
\* either end, the first character of each word not lower case and the other
\* characters not upper case.
IsCanonical(s) ==
  \A k \in 1..Len(s) :
     IF s[k] = " "
     THEN k # 1 /\ k # Len(s) /\ s[k + 1] # " "
     ELSE IF k = 1 \/ s[k - 1] = " " THEN s[k] # "a" ELSE s[k] # "A"

\* The arguments other than the texts are ones the constructor accepts.
NumbersAndFlagValid ==
  /\ call.depot.isBool
  /\ call.r.kind = "num" /\ call.r.v >= 0
  /\ call.theta.kind = "num" /\ call.theta.v >= -1 /\ call.theta.v <= 1

\* C18: every successfully constructed Location has r >= 0, theta within
\* [-pi, pi], and a name and a region that are non-empty and word-capitalized;
\* a name or region that is not word-capitalized is normalized, not rejected.
ConstructedLocationIsValid ==
  Returned("Location") =>
     /\ ret.err = "none" =>
          /\ ret.loc.r.kind = "num" /\ ret.loc.r.v >= 0
          /\ ret.loc.theta.kind = "num"
          /\ ret.loc.theta.v >= -1 /\ ret.loc.theta.v <= 1
          /\ ret.loc.name # <<>> /\ IsCanonical(ret.loc.name)
          /\ ret.loc.region # <<>> /\ IsCanonical(ret.loc.region)
     /\ (NumbersAndFlagValid /\ call.name.isStr /\ call.region.isStr) =>
          ret.err = "none"

\* What does hold of C18: numbers that are not NaN are in range, and the
\* texts are word-capitalized, possibly empty.
ConstructedLocationIsNormalized ==
  Returned("Location") =>
     /\ ret.err = "none" =>
          /\ ret.loc.r.kind = "num" => ret.loc.r.v >= 0
          /\ ret.loc.theta.kind = "num" =>
               ret.loc.theta.v >= -1 /\ ret.loc.theta.v <= 1
          /\ IsCanonical(ret.loc.name)
          /\ IsCanonical(ret.loc.region)
     /\ (NumbersAndFlagValid /\ call.name.isStr /\ call.region.isStr) =>
          ret.err = "none"

\* Location("", "  ", 1, 0, False) is constructed, with an empty name and region.
EmptyNameConstructed ==
  /\ Returned("Location")
  /\ call.name.s = <<>>
  /\ call.region.s = <<" ", " ">>
  /\ NumbersAndFlagValid
  /\ ret.err = "none"
  /\ ret.loc.name = <<>>
  /\ ret.loc.region = <<>>

\* Location("A", "A", nan, nan, False) is constructed.
NaNCoordinatesConstructed ==
  /\ Returned("Location")
  /\ call.r = NaN
  /\ call.theta = NaN
  /\ ret.err = "none"
  /\ ret.loc.r = NaN

\* Location("a A", " aA", ...) is constructed with name "A A" and region "Aa".
NameNormalizedReached ==
  /\ Returned("Location")
  /\ call.name.s = <<"a", " ", "A">>
  /\ call.region.s = <<" ", "a", "A">>
  /\ ret.err = "none"
  /\ ret.loc.name = <<"A", " ", "A">>
  /\ ret.loc.region = <<"A", "a">>

\* C19 as stated: distance_to with an argument that is not a Location raises
\* TypeError, the class construction raises for a non-text name or a
\* non-boolean depot flag, and returns no distance.
DistanceToRaisesTypeError ==
  (Returned("distance_to") /\ ~call.other.isLocation) =>
     ret.err = "TypeError" /\ ~ret.found

\* C19 amended: distance_to with an argument that is not a Location raises
\* ValueError, the class construction raises for an r or theta out of range,
\* and returns no distance.
DistanceToRaisesValueError ==
  (Returned("distance_to") /\ ~call.other.isLocation) =>
     ret.err = "ValueError" /\ ~ret.found

\* C19 witness: distance_to was called on a Location away from the origin with
\* something that is not a Location, and has failed.
DistanceToRaisesValueErrorWitness ==
  /\ Returned("distance_to")
  /\ ~call.other.isLocation
  /\ call.self.r > 0
  /\ ret.err = "ValueError"
  /\ ~ret.found

\* With a Location the distance is returned: opposite points at r = 1 are 2 apart.
DistanceReturnedReached ==
  /\ Returned("distance_to")
  /\ call.other.isLocation
  /\ call.self.theta # call.other.loc.theta
  /\ ret.found
  /\ ret.distance = Frac(call.self.r + call.other.loc.r, 1)

----------------------------------------------------------------------------
\* The Country again, constructed from Locations whose r may be float('inf'):
\* Location.__init__ accepts it, since float('inf') >= 0.

WideLocations ==
  [name : Names, region : Regions, r : 1..(MaxR + 1), theta : Thetas,
   depot : BOOLEAN]

\* Country(list_of_locations)
ConstructWide ==
  /\ ~constructed
  /\ Idle
  /\ \E list \in SeqsUpTo(WideLocations, MaxLocs) :
       /\ call' = Call("Country", NoLocation, NoLocation, FALSE,
                       [k \in 1..Len(list) |-> LocCand(list[k])])
       /\ IF HasDuplicates(list)
          THEN /\ ret' = [NoRet EXCEPT !.err = "ValueError"]
               /\ UNCHANGED <<constructed, all_locations>>
          ELSE /\ constructed' = TRUE
               /\ all_locations' = list
               /\ ret' = NoRet

\* country.fastest_trip_from(current_location), over all the settlements
FastestTripFromSettlements ==
  /\ constructed
  /\ Idle
  /\ \E c \in CurrentArgs(all_locations), rev \in BOOLEAN :
       /\ call' = Call("fastest_trip_from", c, NoLocation, TRUE, <<>>)
       /\ LET t == fastest_trip_from(all_locations, c, TRUE, <<>>, rev)
          IN ret' = [Ret(t.err, t.found, t.loc, t.time, <<>>, 0)
                       EXCEPT !.after = CandidatesAfter(<<>>, c)]
  /\ UNCHANGED <<constructed, all_locations>>

NextWide ==
  \/ ConstructWide
  \/ FastestTripFromSettlements
  \/ NnTour
  \/ BestDepotSite
  \/ Return

WideSpec == Init /\ [][NextWide]_vars

\* The orders a list of n Locations can be stored in
Perms(n) == {p \in [1..n -> 1..n] : \A i, j \in 1..n : p[i] = p[j] => i = j}
Permuted(all, p) == [k \in 1..Len(all) |-> all[p[k]]]

\* The result held in ret is the result for every storage order of the
\* Country and every iteration order of its sets.
SameForEveryOrder ==
  /\ Returned("nn_tour") =>
       \A p \in Perms(Len(all_locations)), rev \in BOOLEAN :
          LET t == nn_tour(Permuted(all_locations, p), call.a, rev)
          IN t.err = ret.err /\ t.tour = ret.tour /\ t.time = ret.time
  /\ Returned("best_depot_site") =>
       \A p \in Perms(Len(all_locations)), rev \in BOOLEAN :
          LET b == best_depot_site(Permuted(all_locations, p), rev)
          IN b.err = ret.err /\ b.found = ret.found /\ b.loc = ret.loc

\* C21: the tour and total time of nn_tour(depot) and the depot returned by
\* best_depot_site do not depend on the storage order of the Country nor on
\* the iteration order of the sets: Countries constructed from any two
\* permutations of a list give identical results, and so do repeated calls.
ResultsIndependentOfStorageOrder == SameForEveryOrder

AllFinite ==
  /\ \A i \in 1..Len(all_locations) : ~IsInfinite(all_locations[i].r)
  /\ Returned("nn_tour") => ~IsInfinite(call.a.r)

\* What does hold of C21: the results are independent of the orders when
\* every r is finite.
FiniteResultsIndependentOfStorageOrder == AllFinite => SameForEveryOrder

\* A tour over two settlements that tie on the time of the first leg, in a
\* Country of finite Locations; the name or the region decides.
TieBrokenByNameReached ==
  /\ Returned("nn_tour")
  /\ AllFinite
  /\ ret.err = "none"
  /\ Len(ret.tour) = 4
  /\ FEq(TimeBetween(ret.tour[1], ret.tour[2]), TimeBetween(ret.tour[1], ret.tour[3]))

\* A tour over two settlements at r = float('inf') in the direction of the
\* depot: both first legs take a NaN time.
NaNTourReached ==
  /\ Returned("nn_tour")
  /\ ret.err = "none"
  /\ Len(ret.tour) = 4
  /\ ~IsInfinite(call.a.r)
  /\ IsNaN(TimeBetween(ret.tour[1], ret.tour[2]))
  /\ IsNaN(TimeBetween(ret.tour[1], ret.tour[3]))
  /\ IsNaN(ret.time)

\* best_depot_site returns None in a Country that has a depot.
NoBestDepotReached ==
  /\ Returned("best_depot_site")
  /\ DepotSet # {}
  /\ ret.err = "none"
  /\ ~ret.found

\* The unvisited set at the start of iteration i of the loop that built ret.tour
UnvisitedAt(i) ==
  SelectSeq(settlements(all_locations),
            LAMBDA l : \A j \in 2..i : ~LocEq(ret.tour[j], l))

\* C22: for every Country and every starting depot among its depots the loop
\* of nn_tour ends after exactly |settlements| iterations: in each iteration
\* fastest_trip_from returns a Location, never (None, None), that is in the
\* unvisited set, the set loses exactly that one element, and the removal
\* does not fail.
NnTourLoopTerminates ==
  (Returned("nn_tour") /\ IsDepotOfCountry(call.a)) =>
     /\ ret.err = "none"
     /\ ret.iters = Cardinality(SettlementSet)
     /\ Len(ret.tour) = ret.iters + 2
     /\ \A i \in 1..ret.iters, rev \in BOOLEAN :
          LET unvisited == UnvisitedAt(i)
              next == fastest_trip_from(all_locations, ret.tour[i], FALSE,
                         [k \in 1..Len(unvisited) |-> LocCand(unvisited[k])], rev)
          IN /\ Len(unvisited) = ret.iters - i + 1
             /\ next.err = "none"
             /\ next.found
             /\ Contains(unvisited, next.loc)
             /\ Contains(unvisited, ret.tour[i + 1])
             /\ Len(UnvisitedAt(i + 1)) = Len(unvisited) - 1

\* C22 witness: a tour over two settlements of one region, started from an
\* equal copy of a depot that lies elsewhere, has taken two iterations.
NnTourLoopTerminatesWitness ==
  /\ Returned("nn_tour")
  /\ IsDepotOfCountry(call.a)
  /\ call.a \notin DepotSet
  /\ Cardinality(SettlementSet) = 2
  /\ \A x, y \in SettlementSet : x.region = y.region
  /\ ret.err = "none"
  /\ ret.iters = 2

\* A further case of C22: the loop over settlements at r = float('inf'),
\* whose times are NaN, takes two iterations as well.
NaNLoopTerminatesReached ==
  /\ Returned("nn_tour")
  /\ IsNaN(ret.time)
  /\ ret.iters = 2

\* fastest_trip_from has returned a settlement with a NaN time although a
\* settlement with a NaN time and a smaller (name, region) was a candidate.
NaNTieBrokenByOrderReached ==
  /\ Returned("fastest_trip_from")
  /\ call.flag
  /\ IsMember(call.a)
  /\ ret.found
  /\ IsNaN(ret.time)
  /\ \E y \in SettlementSet :
       /\ ~LocEq(y, call.a)
       /\ IsNaN(TimeBetween(call.a, y))
       /\ DepotKeyLess(y, ret.loc)

====
